---------------------------- MODULE Spec2Model ----------------------------
(***************************************************************************)
(* EnvironmentMonitor (src/main.go): a ticker-driven sampler (main ->      *)
(* pollInterval -> readSensor) feeds the `logging` channel; computeSum     *)
(* sums `steps` readings and hands each total over the unbuffered `totals` *)
(* channel to averageStream, which divides and sends on `averaged`;        *)
(* logToDatabase writes every average it receives.  main's deferred calls  *)
(* (close(averaged), close(logging), dev.Halt(), bus.Close()) run in LIFO  *)
(* order when pollInterval returns.                                        *)
(*                                                                         *)
(* One action per step of each goroutine.  A channel is a sequence plus a  *)
(* closed flag; the unbuffered `totals` channel is a rendezvous of sender  *)
(* and receiver.  log.Fatal is os.Exit(1): the process ends at once and no *)
(* deferred call runs.  A panic in a goroutine other than main ends the    *)
(* process with status 2 without running main's deferred calls; a panic in *)
(* main runs them first.                                                   *)
(***************************************************************************)
EXTENDS Integers, Sequences, FiniteSets, TLC

(* ------------------------------ bounds -------------------------------- *)

\* Ticks the ticker delivers in a run (and totals computeSum may hand over,
\* which only limits the runs with a non-positive window size).
MaxTicks == 4

\* Largest window size the flag is given.
MaxWindow == 3

(* ------------------------- program constants -------------------------- *)

\* make(chan physic.Env, 1): capacity of logging and of averaged.
ChanCap == 1

\* Exit status of log.Fatal (os.Exit(1)).
FatalStatus == 1

\* Exit status of a Go process that ends by an unrecovered panic.
PanicStatus == 2

\* physic.RelativeHumidity is an int32: the humidity sum wraps at 32 bits.
MaxInt32 == 2147483647

MinInt32 == -MaxInt32 - 1

(* ------------------------------ inputs -------------------------------- *)

\* Values of the -window flag: flag.IntVar accepts any integer.
Windows == -1 .. MaxWindow

\* Values of the -read_interval flag: a non-positive one and the default.
Intervals == {0, 15}

\* Readings dev.Sense may deliver.  Temperature and Pressure are int64 in the
\* program: the values are kept small enough that no 64-bit sum wraps (TLC's
\* integers are 32 bits wide).  Humidity is an int32 and takes a value whose
\* sums pass 2^31.
Readings ==
    { [Temperature |-> 7,  Pressure |-> -5, Humidity |-> 1500000000],
      [Temperature |-> -4, Pressure |-> 2,  Humidity |-> 3] }

\* physic.Env{}: the zero value.
ZeroEnv == [Temperature |-> 0, Pressure |-> 0, Humidity |-> 0]

(* ----------------------------- arithmetic ----------------------------- *)

\* int64 addition (Temperature, Pressure), on inputs that do not wrap.
AddInt64(a, b) == a + b

\* int32 addition with two's-complement wrap-around (Humidity), written so
\* that no intermediate value leaves the 32-bit range.
AddInt32(a, b) ==
    IF a > 0 /\ b > 0 /\ a > MaxInt32 - b
        THEN (a - MaxInt32 - 1) + (b - MaxInt32 - 1)
    ELSE IF a < 0 /\ b < 0 /\ a < MinInt32 - b
        THEN (a + MaxInt32 + 1) + (b + MaxInt32 + 1)
    ELSE a + b

\* total.X += env.X for the three fields (lines 58-60).
AddEnv(t, e) ==
    [Temperature |-> AddInt64(t.Temperature, e.Temperature),
     Pressure    |-> AddInt64(t.Pressure, e.Pressure),
     Humidity    |-> AddInt32(t.Humidity, e.Humidity)]

\* Go's integer quotient a / b for b # 0: truncated toward zero.
TruncDiv(a, b) ==
    IF b > 0
        THEN IF a >= 0 \/ a % b = 0 THEN a \div b ELSE (a \div b) + 1
        ELSE IF a <= 0 \/ a % (-b) = 0 THEN (-a) \div (-b)
                                       ELSE -(a \div (-b))

\* The average of a total over `steps` readings (lines 77-81).
Average(t, steps) ==
    [Temperature |-> TruncDiv(t.Temperature, steps),
     Pressure    |-> TruncDiv(t.Pressure, steps),
     Humidity    |-> TruncDiv(t.Humidity, steps)]

(* ------------------------------- state -------------------------------- *)

VARIABLES
    window_size,        \* -window flag
    read_interval_secs, \* -read_interval flag
    mainPc,             \* position of the main goroutine
    bus,                \* "none" | "open" | "closed"
    dev,                \* "none" | "open" | "halted"
    sigsRegistered,     \* signal.Notify(sigs, ...) has run
    sigs,               \* signals buffered in sigs (capacity 1)
    tickerC,            \* ticks buffered in ticker.C (capacity 1)
    ticks,              \* ticks delivered so far
    env,                \* the reading readSensor holds
    logging,            \* buffer of the logging channel
    loggingClosed,
    averaged,           \* buffer of the averaged channel
    averagedClosed,
    totalsClosed,       \* the unbuffered totals channel is closed
    csPc,               \* position of computeSum
    i,                  \* computeSum's loop counter
    total,              \* computeSum's accumulator
    asPc,               \* position of averageStream
    asTotal,            \* the total averageStream received
    average,            \* the average averageStream computed
    dbPc,               \* position of logToDatabase
    data,               \* the record logToDatabase received
    exited,             \* the process has ended
    exitCode,           \* its exit status
    \* history, read by the properties only
    senseCalls,         \* calls of dev.Sense
    senseFailed,        \* a call of dev.Sense returned an error
    published,          \* readings sent on logging, in order
    consumed,           \* readings computeSum received, in order
    totalsSent,         \* totals handed over on totals
    produced,           \* averages sent on averaged, in order
    sunk,               \* records logToDatabase received, in order
    writes,             \* outcome of each completed WritePoint, in order
    sigPartial          \* a signal arrived while 0 < i < steps

config == <<window_size, read_interval_secs>>
mainVars == <<mainPc, bus, dev, sigsRegistered, env>>
envVars == <<sigs, tickerC, ticks>>
chanVars == <<logging, loggingClosed, averaged, averagedClosed, totalsClosed>>
csVars == <<csPc, i, total>>
asVars == <<asPc, asTotal, average>>
dbVars == <<dbPc, data>>
exitVars == <<exited, exitCode>>
histVars == <<senseCalls, senseFailed, published, consumed, totalsSent,
              produced, sunk, writes, sigPartial>>

vars == <<config, mainVars, envVars, chanVars, csVars, asVars, dbVars,
          exitVars, histVars>>

\* parseFlags (lines 143-149) returns whatever integers the flags hold; main
\* has not yet run a statement after it.
Init ==
    /\ window_size \in Windows
    /\ read_interval_secs \in Intervals
    /\ mainPc = "hostInit"
    /\ bus = "none"
    /\ dev = "none"
    /\ sigsRegistered = FALSE
    /\ sigs = 0
    /\ tickerC = 0
    /\ ticks = 0
    /\ env = ZeroEnv
    /\ logging = <<>>
    /\ loggingClosed = FALSE
    /\ averaged = <<>>
    /\ averagedClosed = FALSE
    /\ totalsClosed = FALSE
    /\ csPc = "idle"
    /\ i = 0
    /\ total = ZeroEnv
    /\ asPc = "idle"
    /\ asTotal = ZeroEnv
    /\ average = ZeroEnv
    /\ dbPc = "idle"
    /\ data = ZeroEnv
    /\ exited = FALSE
    /\ exitCode = 0
    /\ senseCalls = 0
    /\ senseFailed = FALSE
    /\ published = <<>>
    /\ consumed = <<>>
    /\ totalsSent = 0
    /\ produced = <<>>
    /\ sunk = <<>>
    /\ writes = <<>>
    /\ sigPartial = FALSE

(* --------------------------- process exit ----------------------------- *)

\* os.Exit(status), or the runtime ending the process after a panic: every
\* goroutine stops where it is.
Exit(status) ==
    /\ exited' = TRUE
    /\ exitCode' = status

\* log.Fatal(err): print and os.Exit(1); deferred calls do not run.
Fatal == Exit(FatalStatus)

\* An unrecovered panic in a goroutine started with `go`.
GoroutinePanic == Exit(PanicStatus)

(* ------------------------- main (lines 151-182) ----------------------- *)

\* host.Init() (lines 156-158): on error log.Fatal.
HostInit ==
    /\ ~exited /\ mainPc = "hostInit"
    /\ \E ok \in BOOLEAN :
         IF ok THEN /\ mainPc' = "getBus"
                    /\ UNCHANGED exitVars
               ELSE /\ Fatal
                    /\ UNCHANGED mainPc
    /\ UNCHANGED <<config, bus, dev, sigsRegistered, env, envVars, chanVars,
                   csVars, asVars, dbVars, histVars>>

\* bus := getBus(); defer bus.Close() (lines 22-30, 161-162).
GetBus ==
    /\ ~exited /\ mainPc = "getBus"
    /\ \E ok \in BOOLEAN :
         IF ok THEN /\ bus' = "open"
                    /\ mainPc' = "getDevice"
                    /\ UNCHANGED exitVars
               ELSE /\ Fatal
                    /\ UNCHANGED <<bus, mainPc>>
    /\ UNCHANGED <<config, dev, sigsRegistered, env, envVars, chanVars,
                   csVars, asVars, dbVars, histVars>>

\* dev := getDevice(bus); defer dev.Halt() (lines 32-41, 164-165).  The two
\* channels are made and their closes deferred (lines 167-170).
GetDevice ==
    /\ ~exited /\ mainPc = "getDevice"
    /\ \E ok \in BOOLEAN :
         IF ok THEN /\ dev' = "open"
                    /\ mainPc' = "goAverageStream"
                    /\ UNCHANGED exitVars
               ELSE /\ Fatal
                    /\ UNCHANGED <<dev, mainPc>>
    /\ UNCHANGED <<config, bus, sigsRegistered, env, envVars, chanVars,
                   csVars, asVars, dbVars, histVars>>

\* go averageStream(window_size, logging, averaged) (line 172).
GoAverageStream ==
    /\ ~exited /\ mainPc = "goAverageStream"
    /\ asPc' = "start"
    /\ mainPc' = "goLogToDatabase"
    /\ UNCHANGED <<config, bus, dev, sigsRegistered, env, envVars, chanVars,
                   csVars, asTotal, average, dbVars, exitVars, histVars>>

\* go logToDatabase(averaged) (line 175).
GoLogToDatabase ==
    /\ ~exited /\ mainPc = "goLogToDatabase"
    /\ dbPc' = "range"
    /\ mainPc' = "pollInterval"
    /\ UNCHANGED <<config, bus, dev, sigsRegistered, env, envVars, chanVars,
                   csVars, asVars, data, exitVars, histVars>>

(* --------------------- pollInterval (lines 123-141) ------------------- *)

\* signal.Notify, then time.NewTicker(interval), which panics when the
\* interval is not positive (lines 124-128).  The panic is in main: its
\* deferred calls run before the process ends.
PollStart ==
    /\ ~exited /\ mainPc = "pollInterval"
    /\ sigsRegistered' = TRUE
    /\ mainPc' = IF read_interval_secs > 0 THEN "select" ELSE "panicking"
    /\ UNCHANGED <<config, bus, dev, env, envVars, chanVars, csVars, asVars,
                   dbVars, exitVars, histVars>>

\* What the signal case would do with `break` in place of `return`: break
\* leaves the select only, and the loop goes on.
SelectSignalBreak ==
    /\ ~exited /\ mainPc = "select"
    /\ sigs > 0
    /\ sigs' = sigs - 1
    /\ mainPc' = "select"
    /\ UNCHANGED <<config, bus, dev, sigsRegistered, env, tickerC, ticks,
                   chanVars, csVars, asVars, dbVars, exitVars, histVars>>

\* case <-sigs: return (lines 132-134).  main returns: the deferred calls
\* start.
SelectSignal ==
    /\ ~exited /\ mainPc = "select"
    /\ sigs > 0
    /\ sigs' = sigs - 1
    /\ mainPc' = "returning"
    /\ UNCHANGED <<config, bus, dev, sigsRegistered, env, tickerC, ticks,
                   chanVars, csVars, asVars, dbVars, exitVars, histVars>>

\* case t := <-ticker.C: callable() (lines 135-137).  When a signal and a
\* tick are both ready, select takes either.
SelectTick ==
    /\ ~exited /\ mainPc = "select"
    /\ tickerC > 0
    /\ tickerC' = tickerC - 1
    /\ mainPc' = "sense"
    /\ UNCHANGED <<config, bus, dev, sigsRegistered, env, sigs, ticks,
                   chanVars, csVars, asVars, dbVars, exitVars, histVars>>

(* ---------------------- readSensor (lines 112-121) -------------------- *)

\* What a logged, non-fatal error would do: readSensor goes on to publish env.
SenseErrorLogged ==
    /\ mainPc' = "send"
    /\ UNCHANGED exitVars

\* What readSensor does when dev.Sense returns an error: log.Fatal(err)
\* (lines 115-117).
SenseError ==
    /\ Fatal
    /\ UNCHANGED mainPc

\* dev.Sense(&env): a reading, or an error and log.Fatal (lines 114-117).
Sense ==
    /\ ~exited /\ mainPc = "sense"
    /\ senseCalls' = senseCalls + 1
    /\ \/ \E r \in Readings :
            /\ env' = r
            /\ mainPc' = "send"
            /\ UNCHANGED <<exitVars, senseFailed>>
       \/ /\ senseFailed' = TRUE
          /\ SenseError
          /\ UNCHANGED env
    /\ UNCHANGED <<config, bus, dev, sigsRegistered, envVars, chanVars,
                   csVars, asVars, dbVars, published, consumed, totalsSent,
                   produced, sunk, writes, sigPartial>>

\* What the send would do on a channel that never blocks the sender.
SendLoggingUnbounded ==
    /\ ~exited /\ mainPc = "send"
    /\ logging' = Append(logging, env)
    /\ published' = Append(published, env)
    /\ mainPc' = "select"
    /\ UNCHANGED <<config, bus, dev, sigsRegistered, env, envVars,
                   loggingClosed, averaged, averagedClosed, totalsClosed,
                   csVars, asVars, dbVars, exitVars, senseCalls, senseFailed,
                   consumed, totalsSent, produced, sunk, writes, sigPartial>>

\* logging <- env (line 120): blocks while the buffer is full.
SendLogging ==
    /\ ~exited /\ mainPc = "send"
    /\ Len(logging) < ChanCap
    /\ logging' = Append(logging, env)
    /\ published' = Append(published, env)
    /\ mainPc' = "select"
    /\ UNCHANGED <<config, bus, dev, sigsRegistered, env, envVars,
                   loggingClosed, averaged, averagedClosed, totalsClosed,
                   csVars, asVars, dbVars, exitVars, senseCalls, senseFailed,
                   consumed, totalsSent, produced, sunk, writes, sigPartial>>

(* --------------- main's deferred calls (lines 162-170) ---------------- *)

\* The deferred calls run last-in first-out, after pollInterval returned
\* ("returning") or while main panics ("panicking").
Unwinding == mainPc \in {"returning", "panicking"}

\* defer close(averaged) (line 170): deferred last, so it runs first.
DeferCloseAveraged ==
    /\ ~exited /\ Unwinding
    /\ ~averagedClosed
    /\ averagedClosed' = TRUE
    /\ UNCHANGED <<config, mainVars, envVars, logging, loggingClosed,
                   averaged, totalsClosed, csVars, asVars, dbVars, exitVars,
                   histVars>>

\* defer close(logging) (line 168).
DeferCloseLogging ==
    /\ ~exited /\ Unwinding
    /\ averagedClosed /\ ~loggingClosed
    /\ loggingClosed' = TRUE
    /\ UNCHANGED <<config, mainVars, envVars, logging, averaged,
                   averagedClosed, totalsClosed, csVars, asVars, dbVars,
                   exitVars, histVars>>

\* defer dev.Halt() (line 165).
DeferHalt ==
    /\ ~exited /\ Unwinding
    /\ loggingClosed /\ dev = "open"
    /\ dev' = "halted"
    /\ UNCHANGED <<config, mainPc, bus, sigsRegistered, env, envVars,
                   chanVars, csVars, asVars, dbVars, exitVars, histVars>>

\* defer bus.Close() (line 162).
DeferBusClose ==
    /\ ~exited /\ Unwinding
    /\ dev = "halted" /\ bus = "open"
    /\ bus' = "closed"
    /\ UNCHANGED <<config, mainPc, dev, sigsRegistered, env, envVars,
                   chanVars, csVars, asVars, dbVars, exitVars, histVars>>

\* main has returned (status 0) or its panic has unwound (status 2): the
\* process ends, whatever the other goroutines are doing.
MainReturn ==
    /\ ~exited /\ Unwinding
    /\ bus = "closed"
    /\ Exit(IF mainPc = "panicking" THEN PanicStatus ELSE 0)
    /\ UNCHANGED <<config, mainVars, envVars, chanVars, csVars, asVars,
                   dbVars, histVars>>

(* ------------------------ the environment ----------------------------- *)

\* SIGINT or SIGTERM arrives and the runtime puts it in sigs (capacity 1;
\* a signal that finds the buffer full is dropped).
Signal ==
    /\ ~exited /\ sigsRegistered
    /\ sigs = 0
    /\ sigs' = 1
    /\ sigPartial' = (sigPartial \/ (csPc = "loop" /\ 0 < i /\ i < window_size))
    /\ UNCHANGED <<config, mainVars, tickerC, ticks, chanVars, csVars,
                   asVars, dbVars, exitVars, senseCalls, senseFailed,
                   published, consumed, totalsSent, produced, sunk, writes>>

\* The ticker fires: a tick is put in ticker.C (capacity 1; a tick that
\* finds the buffer full is dropped).
Tick ==
    /\ ~exited /\ mainPc \in {"select", "sense", "send"}
    /\ tickerC = 0
    /\ ticks < MaxTicks
    /\ tickerC' = 1
    /\ ticks' = ticks + 1
    /\ UNCHANGED <<config, mainVars, sigs, chanVars, csVars, asVars, dbVars,
                   exitVars, histVars>>

(* ---------------------- computeSum (lines 43-66) ---------------------- *)

\* env, open := <-input with a value; total += env; i++ (lines 52, 58-60).
\* A closed channel still delivers what it buffers.
CS_Recv ==
    /\ ~exited /\ csPc = "loop"
    /\ i < window_size
    /\ Len(logging) > 0
    /\ total' = AddEnv(total, Head(logging))
    /\ consumed' = Append(consumed, Head(logging))
    /\ logging' = Tail(logging)
    /\ i' = i + 1
    /\ UNCHANGED <<config, mainVars, envVars, loggingClosed, averaged,
                   averagedClosed, totalsClosed, csPc, asVars, dbVars,
                   exitVars, senseCalls, senseFailed, published, totalsSent,
                   produced, sunk, writes, sigPartial>>

\* What computeSum would do if it flushed the partial total when its input
\* closes, instead of dropping it.
CS_InputClosedFlush ==
    /\ ~exited /\ csPc = "loop"
    /\ i < window_size
    /\ logging = <<>> /\ loggingClosed
    /\ asPc = "range"
    /\ asTotal' = total
    /\ asPc' = "divide"
    /\ totalsSent' = totalsSent + 1
    /\ totalsClosed' = TRUE
    /\ csPc' = "done"
    /\ UNCHANGED <<config, mainVars, envVars, logging, loggingClosed,
                   averaged, averagedClosed, i, total, average, dbVars,
                   exitVars, senseCalls, senseFailed, published, consumed,
                   produced, sunk, writes, sigPartial>>

\* !open: close(output); return (lines 53-56).  The partial total is dropped.
CS_InputClosed ==
    /\ ~exited /\ csPc = "loop"
    /\ i < window_size
    /\ logging = <<>> /\ loggingClosed
    /\ totalsClosed' = TRUE
    /\ csPc' = "done"
    /\ UNCHANGED <<config, mainVars, envVars, logging, loggingClosed,
                   averaged, averagedClosed, i, total, asVars, dbVars,
                   exitVars, histVars>>

\* What the hand-over would do if the accumulator were not reset for the
\* next window.
CS_SendTotalNoReset ==
    /\ ~exited /\ csPc = "loop"
    /\ i >= window_size
    /\ asPc = "range"
    /\ totalsSent < MaxTicks
    /\ asTotal' = total
    /\ asPc' = "divide"
    /\ i' = 0
    /\ totalsSent' = totalsSent + 1
    /\ UNCHANGED <<config, mainVars, envVars, chanVars, csPc, total, average,
                   dbVars, exitVars, senseCalls, senseFailed, published,
                   consumed, produced, sunk, writes, sigPartial>>

\* output <- total (line 64) meeting averageStream's receive in
\* `for total := range totals` (line 76): totals is unbuffered, so the send
\* completes only when the receiver is waiting.  Then total := physic.Env{}
\* and i := 0 (lines 50-51).
CS_SendTotal ==
    /\ ~exited /\ csPc = "loop"
    /\ i >= window_size
    /\ asPc = "range"
    /\ totalsSent < MaxTicks
    /\ asTotal' = total
    /\ asPc' = "divide"
    /\ total' = ZeroEnv
    /\ i' = 0
    /\ totalsSent' = totalsSent + 1
    /\ UNCHANGED <<config, mainVars, envVars, chanVars, csPc, average,
                   dbVars, exitVars, senseCalls, senseFailed, published,
                   consumed, produced, sunk, writes, sigPartial>>

(* --------------------- averageStream (lines 68-85) -------------------- *)

\* totals := make(chan physic.Env); go computeSum(...) (lines 74-75).
AS_Start ==
    /\ ~exited /\ asPc = "start"
    /\ csPc' = "loop"
    /\ asPc' = "range"
    /\ UNCHANGED <<config, mainVars, envVars, chanVars, i, total, asTotal,
                   average, dbVars, exitVars, histVars>>

\* The range over totals ends when totals is closed (line 76).
AS_RangeEnd ==
    /\ ~exited /\ asPc = "range"
    /\ totalsClosed
    /\ asPc' = "done"
    /\ UNCHANGED <<config, mainVars, envVars, chanVars, csVars, asTotal,
                   average, dbVars, exitVars, histVars>>

\* average := total / int64(steps), field by field (lines 77-81).  A zero
\* divisor is a run-time panic (integer divide by zero).
AS_Divide ==
    /\ ~exited /\ asPc = "divide"
    /\ IF window_size = 0
          THEN /\ GoroutinePanic
               /\ UNCHANGED <<asPc, average>>
          ELSE /\ average' = Average(asTotal, window_size)
               /\ asPc' = "send"
               /\ UNCHANGED exitVars
    /\ UNCHANGED <<config, mainVars, envVars, chanVars, csVars, asTotal,
                   dbVars, histVars>>

\* What the send would do if a closed channel accepted values.
AS_SendIgnoreClosed ==
    /\ ~exited /\ asPc = "send"
    /\ Len(averaged) < ChanCap
    /\ averaged' = Append(averaged, average)
    /\ produced' = Append(produced, average)
    /\ asPc' = "range"
    /\ UNCHANGED <<config, mainVars, envVars, logging, loggingClosed,
                   averagedClosed, totalsClosed, csVars, asTotal, average,
                   dbVars, exitVars, senseCalls, senseFailed, published,
                   consumed, totalsSent, sunk, writes, sigPartial>>

\* What the send would do if averageStream returned after its first average
\* instead of going back to receive from totals.
AS_SendThenReturn ==
    /\ ~exited /\ asPc = "send"
    /\ IF averagedClosed
          THEN /\ GoroutinePanic
               /\ UNCHANGED <<averaged, produced, asPc>>
          ELSE /\ Len(averaged) < ChanCap
               /\ averaged' = Append(averaged, average)
               /\ produced' = Append(produced, average)
               /\ asPc' = "done"
               /\ UNCHANGED exitVars
    /\ UNCHANGED <<config, mainVars, envVars, logging, loggingClosed,
                   averagedClosed, totalsClosed, csVars, asTotal, average,
                   dbVars, senseCalls, senseFailed, published, consumed,
                   totalsSent, sunk, writes, sigPartial>>

\* averages <- average (line 83): blocks while the buffer is full; a send on
\* a closed channel, blocked or not, panics.
AS_Send ==
    /\ ~exited /\ asPc = "send"
    /\ IF averagedClosed
          THEN /\ GoroutinePanic
               /\ UNCHANGED <<averaged, produced, asPc>>
          ELSE /\ Len(averaged) < ChanCap
               /\ averaged' = Append(averaged, average)
               /\ produced' = Append(produced, average)
               /\ asPc' = "range"
               /\ UNCHANGED exitVars
    /\ UNCHANGED <<config, mainVars, envVars, logging, loggingClosed,
                   averagedClosed, totalsClosed, csVars, asTotal, average,
                   dbVars, senseCalls, senseFailed, published, consumed,
                   totalsSent, sunk, writes, sigPartial>>

(* -------------------- logToDatabase (lines 87-110) -------------------- *)

\* What the receive would do if it left the record in the channel.
DB_RecvPeek ==
    /\ ~exited /\ dbPc = "range"
    /\ Len(averaged) > 0
    /\ data' = Head(averaged)
    /\ sunk' = Append(sunk, Head(averaged))
    /\ dbPc' = "point"
    /\ UNCHANGED <<config, mainVars, envVars, chanVars, csVars, asVars,
                   exitVars, senseCalls, senseFailed, published, consumed,
                   totalsSent, produced, writes, sigPartial>>

\* for data := range datapoints, with a value (line 93).
DB_Recv ==
    /\ ~exited /\ dbPc = "range"
    /\ Len(averaged) > 0
    /\ data' = Head(averaged)
    /\ averaged' = Tail(averaged)
    /\ sunk' = Append(sunk, Head(averaged))
    /\ dbPc' = "point"
    /\ UNCHANGED <<config, mainVars, envVars, logging, loggingClosed,
                   averagedClosed, totalsClosed, csVars, asVars, exitVars,
                   senseCalls, senseFailed, published, consumed, totalsSent,
                   produced, writes, sigPartial>>

\* The range ends when datapoints is closed and drained (line 93).
DB_RangeEnd ==
    /\ ~exited /\ dbPc = "range"
    /\ averaged = <<>> /\ averagedClosed
    /\ dbPc' = "done"
    /\ UNCHANGED <<config, mainVars, envVars, chanVars, csVars, asVars, data,
                   exitVars, histVars>>

\* The point is built and writeAPI.WritePoint is called (lines 94-107).
DB_WriteStart ==
    /\ ~exited /\ dbPc = "point"
    /\ dbPc' = "writing"
    /\ UNCHANGED <<config, mainVars, envVars, chanVars, csVars, asVars, data,
                   exitVars, histVars>>

\* What a loop that returned on a write error would do.
AfterWriteStopOnError(ok) == IF ok THEN "range" ELSE "done"

\* What a loop that called WritePoint again after an error would do.
AfterWriteRetry(ok) == IF ok THEN "range" ELSE "writing"

\* Where logToDatabase goes when WritePoint has returned: the returned error
\* is not looked at, so the loop goes on either way (lines 107-109).
AfterWrite(ok) == "range"

\* WritePoint returns, with or without an error (line 107).
DB_WriteEnd ==
    /\ ~exited /\ dbPc = "writing"
    /\ \E ok \in BOOLEAN :
         /\ writes' = Append(writes, ok)
         /\ dbPc' = AfterWrite(ok)
    /\ UNCHANGED <<config, mainVars, envVars, chanVars, csVars, asVars, data,
                   exitVars, senseCalls, senseFailed, published, consumed,
                   totalsSent, produced, sunk, sigPartial>>

(* --------------------------- specification ---------------------------- *)

Next ==
    \/ HostInit
    \/ GetBus
    \/ GetDevice
    \/ GoAverageStream
    \/ GoLogToDatabase
    \/ PollStart
    \/ SelectSignal
    \/ SelectTick
    \/ Sense
    \/ SendLogging
    \/ DeferCloseAveraged
    \/ DeferCloseLogging
    \/ DeferHalt
    \/ DeferBusClose
    \/ MainReturn
    \/ Signal
    \/ Tick
    \/ CS_Recv
    \/ CS_InputClosed
    \/ CS_SendTotal
    \/ AS_Start
    \/ AS_RangeEnd
    \/ AS_Divide
    \/ AS_Send
    \/ DB_Recv
    \/ DB_RangeEnd
    \/ DB_WriteStart
    \/ DB_WriteEnd

\* The Go scheduler runs every goroutine that can take a step; host.Init,
\* getBus, getDevice, dev.Sense and WritePoint are taken to return; select
\* picks at random among the ready cases, so a case that stays ready again
\* and again is taken in the end.  Signals and ticks are the environment's
\* and are not forced.
Fairness ==
    /\ WF_vars(HostInit) /\ WF_vars(GetBus) /\ WF_vars(GetDevice)
    /\ WF_vars(GoAverageStream) /\ WF_vars(GoLogToDatabase)
    /\ WF_vars(PollStart)
    /\ SF_vars(SelectSignal) /\ SF_vars(SelectTick)
    /\ WF_vars(Sense) /\ WF_vars(SendLogging)
    /\ WF_vars(DeferCloseAveraged) /\ WF_vars(DeferCloseLogging)
    /\ WF_vars(DeferHalt) /\ WF_vars(DeferBusClose) /\ WF_vars(MainReturn)
    /\ WF_vars(CS_Recv) /\ WF_vars(CS_InputClosed) /\ WF_vars(CS_SendTotal)
    /\ WF_vars(AS_Start) /\ WF_vars(AS_RangeEnd) /\ WF_vars(AS_Divide)
    /\ WF_vars(AS_Send)
    /\ WF_vars(DB_Recv) /\ WF_vars(DB_RangeEnd) /\ WF_vars(DB_WriteStart)
    /\ WF_vars(DB_WriteEnd)

Spec == Init /\ [][Next]_vars

FairSpec == Spec /\ Fairness

\* The part of the fairness that concerns the Sink Writer alone.
SinkFairSpec ==
    Spec /\ WF_vars(DB_Recv) /\ WF_vars(DB_WriteStart) /\ WF_vars(DB_WriteEnd)

\* A step of each goroutine behind the Sampler.
ComputeSumStep == CS_Recv \/ CS_InputClosed \/ CS_SendTotal

AverageStreamStep == AS_Start \/ AS_RangeEnd \/ AS_Divide \/ AS_Send

LogToDatabaseStep == DB_Recv \/ DB_RangeEnd \/ DB_WriteStart \/ DB_WriteEnd

\* Both flags are positive.
ValidConfig == window_size >= 1 /\ read_interval_secs >= 1

\* Normal operation: the flags are positive and no signal arrives, so main
\* never leaves pollInterval's loop unless a start-up call or a sensor read
\* fails.  These are the steps the program and the ticker can take then.
NormalNext ==
    \/ HostInit
    \/ GetBus
    \/ GetDevice
    \/ GoAverageStream
    \/ GoLogToDatabase
    \/ PollStart
    \/ SelectTick
    \/ Sense
    \/ SendLogging
    \/ Tick
    \/ CS_Recv
    \/ CS_SendTotal
    \/ AS_Start
    \/ AS_Divide
    \/ AS_Send
    \/ DB_Recv
    \/ DB_WriteStart
    \/ DB_WriteEnd

\* The program starts normal operation with both flags positive.
NormalInit == Init /\ window_size >= 1 /\ read_interval_secs >= 1

\* Normal operation under the scheduler's fairness to the Averager and the
\* Sink Writer, which carry a reading from logging to the sink: each of the
\* three goroutines takes a step when it can, and WritePoint returns.
NormalFairSpec ==
    /\ NormalInit
    /\ [][NormalNext]_vars
    /\ WF_vars(ComputeSumStep)
    /\ WF_vars(AverageStreamStep)
    /\ WF_vars(LogToDatabaseStep)

(* ------------------- operators used by the properties ----------------- *)

\* The k-th window of n consecutive readings computeSum received.
Window(k, n) == SubSeq(consumed, (k - 1) * n + 1, k * n)

RECURSIVE SumOf(_, _)
\* Sum of f[x] over the elements x of sequence s.
SumOf(f(_), s) == IF s = <<>> THEN 0 ELSE f(Head(s)) + SumOf(f, Tail(s))

\* The mathematical sum of the values of s divided by n > 0 and truncated
\* toward zero, computed from the per-value quotients and remainders so that
\* no intermediate value is larger than the values themselves.
MeanTrunc(s, n) ==
    LET q(v) == TruncDiv(v, n)
        r(v) == v - TruncDiv(v, n) * n
        R    == SumOf(r, s)
        base == SumOf(q, s) + TruncDiv(R, n)
        rest == R - TruncDiv(R, n) * n
    IN  IF base > 0 /\ rest < 0 THEN base - 1
        ELSE IF base < 0 /\ rest > 0 THEN base + 1
        ELSE base

\* The per-field truncated mean of the readings of w.
MeanEnv(w, n) ==
    [Temperature |-> MeanTrunc([k \in 1..Len(w) |-> w[k].Temperature], n),
     Pressure    |-> MeanTrunc([k \in 1..Len(w) |-> w[k].Pressure], n),
     Humidity    |-> MeanTrunc([k \in 1..Len(w) |-> w[k].Humidity], n)]

\* Writes started so far: the completed ones and the one in flight.
WritesStarted == Len(writes) + (IF dbPc = "writing" THEN 1 ELSE 0)

(* -------------------------------- C1 ---------------------------------- *)

\* C1: for a window size N >= 1, the k-th average emitted is, field by
\* field, the truncated quotient of the mathematical sum of the k-th N
\* readings consumed by N, and there is at most one average per N readings.
C1_AverageIsTruncatedMean ==
    window_size >= 1 =>
        /\ Len(produced) * window_size <= Len(consumed)
        /\ \A k \in 1..Len(produced) :
              produced[k] = MeanEnv(Window(k, window_size), window_size)

(* -------------------------------- C2 ---------------------------------- *)

\* C2 as stated: in every reachable state the number of averages emitted
\* equals floor(readings consumed / N).
C2_EmittedEqualsFloor ==
    window_size >= 1 => Len(produced) = Len(consumed) \div window_size

\* C2 amended: the number of averages emitted never exceeds
\* floor(readings consumed / N) and lags it by at most two windows; every
\* total handed downstream covers exactly N readings, so the readings of a
\* partial window (the i readings held by computeSum, also once its input is
\* closed) are never part of a total, an average or a sink record.
C2_NoPartialWindowEmitted ==
    window_size >= 1 =>
        /\ Len(consumed) = totalsSent * window_size + i
        /\ i <= window_size
        /\ Len(produced) <= totalsSent
        /\ Len(sunk) <= Len(produced)
        /\ Len(consumed) \div window_size - Len(produced) <= 2
        /\ (csPc = "done" => i < window_size)

\* The input closed on a partial window after at least one full window.
C2_Witness ==
    /\ window_size >= 2
    /\ csPc = "done"
    /\ 0 < i /\ i < window_size
    /\ Len(consumed) > window_size

(* -------------------------------- C3 ---------------------------------- *)

\* C3: the records the Sink Writer received are, in order, a prefix of the
\* averages the Averager sent on averaged.
C3_SinkOrderIsPrefix ==
    /\ Len(sunk) <= Len(produced)
    /\ sunk = SubSeq(produced, 1, Len(sunk))

\* Two different averages went through, and a third is still on its way.
C3_Witness ==
    /\ Len(sunk) >= 2
    /\ sunk[1] # sunk[2]
    /\ Len(produced) > Len(sunk)

(* -------------------------------- C4 ---------------------------------- *)

\* The latest WritePoint to return returned an error.
LastWriteFailed == writes # <<>> /\ ~writes[Len(writes)]

\* C4: when a WritePoint returns an error the Sink Writer is back at its
\* receive with the process running, the record is dropped (not put back, not
\* written again), and a record that is then in averaged is received and a
\* write is started for it unless the process ends first.
C4_FailedWriteKeepsPipeline ==
    /\ [][Len(writes') > Len(writes) /\ LastWriteFailed' =>
            /\ dbPc' = "range"
            /\ UNCHANGED <<exited, exitCode, averaged, sunk>>]_vars
    /\ (LastWriteFailed /\ dbPc = "range" /\ averaged # <<>>)
            ~> (exited \/ dbPc = "writing")

\* A write was attempted and completed for the record after a failed one.
C4_Witness ==
    /\ Len(writes) >= 2
    /\ ~writes[1]
    /\ Len(sunk) >= 2
    /\ ~exited

(* -------------------------------- C5 ---------------------------------- *)

\* C5: the step in which dev.Sense fails ends the process with a non-zero
\* status and publishes nothing, and after it no sensor read is made, no
\* reading is published and no tick is handled.
C5_SensorFailureIsFatal ==
    /\ [](senseFailed => exited /\ exitCode # 0)
    /\ [][senseFailed' /\ ~senseFailed => UNCHANGED <<published, logging>>]_vars
    /\ [][senseFailed => UNCHANGED <<senseCalls, published, logging, mainPc,
                                     tickerC>>]_vars

\* The sensor failed after readings had been read and published.
C5_Witness ==
    /\ senseFailed
    /\ senseCalls >= 2
    /\ published # <<>>
    /\ exited

(* -------------------------------- C6 ---------------------------------- *)

\* C6: after a signal, logging is closed first, the Averager observes it and
\* only then is averaged closed, and only then does the Sink Writer return:
\* averaged is never closed before the Averager has observed the closure of
\* logging.
C6_ShutdownOrder ==
    (ValidConfig /\ mainPc = "returning") =>
        /\ (averagedClosed => loggingClosed /\ csPc = "done")
        /\ (dbPc = "done" => asPc = "done")

(* -------------------------------- C7 ---------------------------------- *)

\* C7: when the process ends after a signal (main returned, status 0), the
\* Averager (computeSum and averageStream) and the Sink Writer have returned.
C7_AllTasksReturned ==
    (ValidConfig /\ exited /\ exitCode = 0) =>
        /\ csPc = "done"
        /\ asPc = "done"
        /\ dbPc = "done"

(* -------------------------------- C8 ---------------------------------- *)

\* Records the Sink Writer has received or can still receive without a new
\* send on averaged.
Pending == Len(averaged) + (IF dbPc = "point" THEN 1 ELSE 0)

C9_BadConfigStartsNothing ==
    (window_size <= 0 \/ read_interval_secs <= 0) =>
        /\ asPc = "idle" /\ csPc = "idle" /\ dbPc = "idle"
        /\ mainPc \notin {"select", "sense", "send"}
        /\ senseCalls = 0
        /\ totalsSent = 0
        /\ sunk = <<>>

(* -------------------------------- C10 --------------------------------- *)

\* C10: when the process has ended after bus and sensor were acquired, the
\* sensor is halted and the bus is closed.
C10_ResourcesReleasedAtExit ==
    (ValidConfig /\ exited /\ dev # "none") =>
        /\ dev = "halted"
        /\ bus = "closed"

(* -------------------------------- C11 --------------------------------- *)

\* Averages averageStream has computed from a total it received: every total
\* handed over, but the one it is dividing.
AveragesComputed == totalsSent - (IF asPc = "divide" THEN 1 ELSE 0)

\* C11: every average computed from a complete window gets a write attempt:
\* when the process has ended after a signal (main returned, status 0), a
\* write was started for each of them.
C11_EveryAverageWritten ==
    (ValidConfig /\ exited /\ exitCode = 0) =>
        WritesStarted >= AveragesComputed

(* -------------------------------- C12 --------------------------------- *)

\* The remainder that goes with MeanTrunc(s, n): the mathematical sum of s
\* is n * MeanTrunc(s, n) + RemTrunc(s, n).
RemTrunc(s, n) ==
    LET q(v) == TruncDiv(v, n)
        r(v) == v - TruncDiv(v, n) * n
        R    == SumOf(r, s)
        base == SumOf(q, s) + TruncDiv(R, n)
        rest == R - TruncDiv(R, n) * n
    IN  IF base > 0 /\ rest < 0 THEN rest + n
        ELSE IF base < 0 /\ rest > 0 THEN rest - n
        ELSE rest

\* t is the mathematical sum of the values of s (at most n of them), told
\* by its quotient and remainder by n so that the sum itself is never formed.
IsSumOf(t, s, n) ==
    /\ TruncDiv(t, n) = MeanTrunc(s, n)
    /\ t - TruncDiv(t, n) * n = RemTrunc(s, n)

\* The readings computeSum has added into total since its last hand-over.
CurrentWindow == SubSeq(consumed, Len(consumed) - i + 1, Len(consumed))

\* C12: for N >= 1 the accumulator holds, field by field, the mathematical
\* sum of the readings of the current window (no wrap-around), and every
\* emitted average is the truncated mean of its window.
C12_SumDoesNotWrap ==
    window_size >= 1 =>
        LET w == CurrentWindow
            n == window_size
        IN  /\ IsSumOf(total.Temperature,
                       [k \in 1..Len(w) |-> w[k].Temperature], n)
            /\ IsSumOf(total.Pressure,
                       [k \in 1..Len(w) |-> w[k].Pressure], n)
            /\ IsSumOf(total.Humidity,
                       [k \in 1..Len(w) |-> w[k].Humidity], n)
            /\ \A k \in 1..Len(produced) :
                  produced[k] = MeanEnv(Window(k, n), n)

(* -------------------------------- C13 --------------------------------- *)

RECURSIVE SumEnv(_)
\* The readings of w added up the way computeSum adds them, from zero.
SumEnv(w) ==
    IF w = <<>> THEN ZeroEnv
    ELSE AddEnv(SumEnv(SubSeq(w, 1, Len(w) - 1)), w[Len(w)])

\* C13: for N >= 1 the readings published are, in order, the readings
\* consumed followed by the one still in logging (none skipped, none taken
\* twice); the accumulator holds the readings consumed since the last
\* hand-over and nothing else; the k-th total handed over and the k-th
\* average emitted are computed from the readings (k-1)*N+1 .. k*N.
C13_WindowsConsecutive ==
    window_size >= 1 =>
        LET n == window_size
        IN  /\ published = consumed \o logging
            /\ Len(consumed) = totalsSent * n + i
            /\ total = SumEnv(CurrentWindow)
            /\ asPc \in {"divide", "send"} =>
                  asTotal = SumEnv(Window(totalsSent, n))
            /\ asPc = "send" =>
                  /\ average = Average(SumEnv(Window(totalsSent, n)), n)
                  /\ Len(produced) = totalsSent - 1
            /\ \A k \in 1..Len(produced) :
                  produced[k] = Average(SumEnv(Window(k, n)), n)

\* Two windows of more than one reading gave two different averages.
C13_Witness ==
    /\ window_size >= 2
    /\ Len(produced) >= 2
    /\ produced[1] # produced[2]

(* -------------------------------- C14 --------------------------------- *)

\* C14: logging and averaged each hold at most one element; at most one
\* published reading is not yet received by the Averager; at most one
\* reading is read and not yet published, and the Sampler is at its select
\* or in a new sensor read only when every reading it read was accepted by
\* logging.
C14_Backpressure ==
    /\ Len(logging) <= 1
    /\ Len(averaged) <= 1
    /\ Len(published) - Len(consumed) <= 1
    /\ senseCalls - Len(published) <= 1
    /\ (~senseFailed /\ mainPc \in {"select", "sense"}) =>
            senseCalls = Len(published)
    /\ (mainPc = "send" /\ Len(logging) >= ChanCap) => ~ENABLED SelectTick

\* The Sampler is blocked on a full logging channel while the next tick is
\* already pending.
C14_Witness ==
    /\ mainPc = "send"
    /\ Len(logging) = 1
    /\ tickerC = 1
    /\ ~exited

(* -------------------------------- C15 --------------------------------- *)

\* C15 as stated: while a signal is pending in sigs, the Sampler's select
\* does not take a tick.
C15_NoTickOnceSignalPending ==
    [][(sigs > 0 /\ mainPc = "select") => mainPc' # "sense"]_vars

\* C15 amended: the select that takes the signal makes pollInterval return,
\* and from then on no tick is handled, no sensor read is started and
\* nothing is published; a read or publication in progress when the signal
\* arrives completes before the select is reached.
C15_NoTickAfterSignalTaken ==
    /\ [][sigs' < sigs => mainPc = "select" /\ mainPc' = "returning"]_vars
    /\ [][mainPc = "returning" =>
            /\ mainPc' = "returning"
            /\ UNCHANGED <<senseCalls, published, tickerC>>]_vars

\* The signal was taken while a tick was pending, after an earlier reading.
C15_Witness ==
    /\ mainPc = "returning"
    /\ tickerC = 1
    /\ senseCalls >= 1
    /\ ~exited

(* -------------------------------- C16 --------------------------------- *)

\* C16: every record received gets one WritePoint call and no more: the
\* writes started never exceed the records received, a record is received
\* only when every earlier write has returned, and a write is outstanding
\* exactly while logToDatabase is between its receive and WritePoint's
\* return.
C16_OneWritePerRecord ==
    /\ WritesStarted <= Len(sunk)
    /\ Len(sunk) - Len(writes) \in {0, 1}
    /\ (dbPc \in {"point", "writing"}) <=> (Len(sunk) = Len(writes) + 1)
    /\ (dbPc \in {"idle", "range", "done"}) => WritesStarted = Len(sunk)

\* A write is in flight after a failed one while the next record waits in
\* averaged.
C16_Witness ==
    /\ dbPc = "writing"
    /\ LastWriteFailed
    /\ Len(averaged) = 1
    /\ ~exited

(* -------------------------------- C17 --------------------------------- *)

\* C17: no goroutine is at a send on a closed channel (the Sampler on
\* logging, computeSum on totals, averageStream on averaged), and the
\* process never ends by a panic.
C17_NoSendOnClosedChannel ==
    ValidConfig =>
        /\ ~(mainPc = "send" /\ loggingClosed)
        /\ ~(csPc = "loop" /\ i >= window_size /\ totalsClosed)
        /\ ~(asPc = "send" /\ averagedClosed)
        /\ ~(exited /\ exitCode = PanicStatus)

(* -------------------------------- C18 --------------------------------- *)

\* A step of the program itself: every action but the environment's two.
ProgramStep ==
    \/ HostInit \/ GetBus \/ GetDevice \/ GoAverageStream \/ GoLogToDatabase
    \/ PollStart \/ SelectSignal \/ SelectTick \/ Sense \/ SendLogging
    \/ DeferCloseAveraged \/ DeferCloseLogging \/ DeferHalt
    \/ DeferBusClose \/ MainReturn
    \/ CS_Recv \/ CS_InputClosed \/ CS_SendTotal
    \/ AS_Start \/ AS_RangeEnd \/ AS_Divide \/ AS_Send
    \/ DB_Recv \/ DB_RangeEnd \/ DB_WriteStart \/ DB_WriteEnd

\* Normal operation: both flags positive, the process running, no signal
\* pending or taken, no panic in main.  (A failed start-up call or sensor
\* read ends the process in its own step.)
NormalOperation ==
    /\ ValidConfig
    /\ ~exited
    /\ sigs = 0
    /\ ~Unwinding

\* C18: in normal operation some goroutine can take a step, unless the
\* Sampler is waiting at its select for the next tick (which it can take
\* once it fires); and a reading in logging is received by computeSum
\* unless normal operation ends first.
C18_NoDeadlock ==
    /\ [](NormalOperation =>
            \/ ENABLED ProgramStep
            \/ (mainPc = "select" /\ tickerC = 0))
    /\ (NormalOperation /\ logging # <<>>)
            ~> (logging = <<>> \/ ~NormalOperation)

\* The pipeline is backed up from the sink to the Sampler's channel: a
\* write in flight, an average buffered, another waiting to be sent, a
\* reading buffered.
C18_Witness ==
    /\ NormalOperation
    /\ dbPc = "writing"
    /\ Len(averaged) = 1
    /\ asPc = "send"
    /\ Len(logging) = 1

=============================================================================
